---- MODULE Spec2Model ----
(***************************************************************************)
(* Model of the etrace error-annotation library.                           *)
(*                                                                         *)
(* An error value is a pointer into `heap`; 0 is the nil error.  A heap    *)
(* cell is either a *Stacktrace node or a plain error (errors.New, or an   *)
(* fmt.Errorf("...%w", e) wrapper that has an Unwrap method).  The caller  *)
(* holds one error value `err`, builds it up with the construction API and *)
(* inspects it with the formatting / inspection API.  A string is a        *)
(* sequence of tokens, "" being <<>>.                                      *)
(***************************************************************************)
EXTENDS Integers, Sequences, FiniteSets, TLC

VARIABLES
    heap,          \* the error values reachable from err, oldest first
    err,           \* the error value the caller holds (0 = nil)
    DefaultFormat, \* process-wide format selector
    CleanPath,     \* process-wide path-cleaning hook ("nil" when unset)
    NoStatusCode,  \* the "no status code" sentinel of the package
    last,          \* the last API call: its name, arguments and result
    wraps,         \* number of code-less wraps applied since the last other construction
    attached       \* the code most recently attached explicitly: <<c>>, or <<>> if none

vars == <<heap, err, DefaultFormat, CleanPath, NoStatusCode, last, wraps, attached>>

\* ---------------------------------------------------------------- bounds
MaxChain == 4

\* ------------------------------------------------------------- constants
NoCode == 65535
FFormatFull == 0
FFormatBrief == 1

Nil == 0
\* no code attached: attached is <<>>, or <<c>> for the attached code c
NoneAttached == <<>>

\* ---------------------------------------------------------------- strings
RECURSIVE Join(_)
Join(toks) == IF toks = <<>> THEN "" ELSE Head(toks) \o Join(Tail(toks))

HasSuffix(str, tok) == str # <<>> /\ str[Len(str)] = tok

\* strings.Index / strings.LastIndex on tokens, 0-based, -1 when absent
Index(s, tok) ==
    IF \E i \in 1..Len(s) : s[i] = tok
    THEN (CHOOSE i \in 1..Len(s) : s[i] = tok /\ \A j \in 1..(i-1) : s[j] # tok) - 1
    ELSE -1

LastIndex(s, tok) ==
    IF \E i \in 1..Len(s) : s[i] = tok
    THEN (CHOOSE i \in 1..Len(s) : s[i] = tok /\ \A j \in (i+1)..Len(s) : s[j] # tok) - 1
    ELSE -1

\* s[from:] with a 0-based start
SliceFrom(s, from) == SubSeq(s, from + 1, Len(s))

\* strings.Replace(s, tok, "", 1)
RemoveFirst(s, tok) ==
    LET i == Index(s, tok)
    IN  IF i = -1 THEN s ELSE SubSeq(s, 1, i) \o SubSeq(s, i + 2, Len(s))

\* ------------------------------------------------------------ error values
IsStacktrace(h, e) == e # Nil /\ h[e].kind = "Stacktrace"

\* errors.As(err, &trace): the first *Stacktrace on the Unwrap chain, Nil if none
RECURSIVE As(_, _)
As(h, e) ==
    IF e = Nil THEN Nil
    ELSE IF h[e].kind = "Stacktrace" THEN e
    ELSE As(h, h[e].unwrap)

GetCode(h, e) ==
    LET trace == As(h, e)
    IN  IF trace # Nil THEN h[trace].code ELSE NoCode

GetStatusCode(h, e) ==
    LET trace == As(h, e)
    IN  IF trace # Nil THEN h[trace].statusCode ELSE NoStatusCode

ExitCode(h, st) == IF h[st].code = NoCode THEN 1 ELSE h[st].code

\* errors.New(text) / fmt.Errorf(msg) without %w
PlainError(text) == [kind |-> "plain", text |-> text, unwrap |-> Nil]

\* ------------------------------------------------------------- call sites
GoPathSrc == "/go/src/"

RemoveGoPath(path) == IF path # <<>> /\ Head(path) = GoPathSrc THEN Tail(path) ELSE path

ApplyCleanPath(path) == IF CleanPath = "RemoveGoPath" THEN RemoveGoPath(path) ELSE path

ShortFuncName(longName) ==
    LET withoutPath    == SliceFrom(longName, LastIndex(longName, "/") + 1)
        withoutPackage == SliceFrom(withoutPath, Index(withoutPath, ".") + 1)
    IN  RemoveFirst(RemoveFirst(RemoveFirst(withoutPackage, "("), "*"), ")")

\* create without the inheritance of the cause's code and status code
createNoInherit(h, cause, code, statusCode, msg, site) ==
    [kind |-> "Stacktrace", message |-> msg, cause |-> cause,
     code |-> code, statusCode |-> statusCode,
     file |-> Join(site.file), function |-> "", line |-> site.line]

create(h, cause, code, statusCode, msg, site) ==
    LET code1 == IF code = NoCode THEN GetCode(h, cause) ELSE code
        statusCode1 == IF statusCode = NoStatusCode THEN GetStatusCode(h, cause) ELSE statusCode
        st == [kind |-> "Stacktrace", message |-> msg, cause |-> cause,
               code |-> code1, statusCode |-> statusCode1,
               file |-> "", function |-> "", line |-> 0]
        file == IF CleanPath # "nil" THEN ApplyCleanPath(site.file) ELSE site.file
        located == [st EXCEPT !.file = Join(file), !.line = site.line]
    IN  IF ~site.ok THEN st
        ELSE IF ~site.hasFunc THEN located
        ELSE [located EXCEPT !.function = Join(ShortFuncName(site.name))]

\* &Stacktrace{...}: a new cell, and the pointer to it
Push(h, cell) == [h |-> Append(h, cell), ret |-> Len(h) + 1]

\* -------------------------------------------------------------- formatting
\* fmt.Sprintf(" %v:%v", file, line) and fmt.Sprintf(" %v:%v (%v)", file, line, function)
Location(file, line, function) ==
    IF function = ""
    THEN " " \o file \o ":" \o ToString(line)
    ELSE " " \o file \o ":" \o ToString(line) \o " (" \o function \o ")"

\* the newline closure of FormatFull
newline(str) == IF str # <<>> /\ ~HasSuffix(str, "\n") THEN str \o <<"\t">> ELSE str

\* the separator of FormatFull without the test of the next node's message
FullSeparatorAlways(h, curr) ==
    IF h[curr].cause = Nil THEN <<>>
    ELSE IF ~IsStacktrace(h, h[curr].cause) THEN <<":">> \o h[h[curr].cause].text
    ELSE <<": ">>

\* the separator FormatFull appends after a node
FullSeparator(h, curr) ==
    IF h[curr].cause = Nil THEN <<>>
    ELSE IF ~IsStacktrace(h, h[curr].cause) THEN <<":">> \o h[h[curr].cause].text
    ELSE IF h[h[curr].cause].message # <<>> THEN <<": ">>
    ELSE <<>>

\* the call-site part of FormatFull without the test for an empty file
FullLocationAlways(h, curr, str) ==
    newline(str) \o <<Location(h[curr].file, h[curr].line, h[curr].function)>>

\* the call-site part FormatFull appends after a node's message
FullLocation(h, curr, str) ==
    IF h[curr].file # ""
    THEN newline(str) \o <<Location(h[curr].file, h[curr].line, h[curr].function)>>
    ELSE str

RECURSIVE FullLoop(_, _, _)
FullLoop(h, curr, str) ==
    LET s1 == str \o h[curr].message
        s2 == FullLocation(h, curr, s1)
        s3 == s2 \o FullSeparator(h, curr)
    IN  IF IsStacktrace(h, h[curr].cause) THEN FullLoop(h, h[curr].cause, s3) ELSE s3

FormatFull(h, st) == FullLoop(h, st, <<>>)

\* concat without the test for an empty piece
concatAlways(str, msg) == IF str # <<>> THEN str \o <<": ">> \o msg ELSE str \o msg

\* the concat closure of FormatBrief
concat(str, msg) == IF str # <<>> /\ msg # <<>> THEN str \o <<": ">> \o msg ELSE str \o msg

RECURSIVE BriefLoop(_, _, _)
BriefLoop(h, curr, str) ==
    LET s1 == concat(str, h[curr].message)
    IN  IF IsStacktrace(h, h[curr].cause) THEN BriefLoop(h, h[curr].cause, s1)
        ELSE IF h[curr].cause # Nil THEN concat(s1, h[h[curr].cause].text)
        ELSE s1

FormatBrief(h, st) == BriefLoop(h, st, <<>>)

\* Format honouring the + and # flags with every verb, not only with s
FormatTextAnyVerb(h, st, flags, c) ==
    IF "+" \in flags /\ "#" \notin flags THEN FormatFull(h, st)
    ELSE IF "#" \in flags /\ "+" \notin flags THEN FormatBrief(h, st)
    ELSE IF DefaultFormat = FFormatFull THEN FormatFull(h, st)
    ELSE FormatBrief(h, st)

\* the rendering Stacktrace.Format selects for the flags and the verb
FormatText(h, st, flags, c) ==
    IF "+" \in flags /\ "#" \notin flags /\ c = "s" THEN FormatFull(h, st)
    ELSE IF "#" \in flags /\ "+" \notin flags /\ c = "s" THEN FormatBrief(h, st)
    ELSE IF DefaultFormat = FFormatFull THEN FormatFull(h, st)
    ELSE FormatBrief(h, st)

FlagOrder == <<"-", "+", "#", " ", "0">>

\* the format string Stacktrace.Format rebuilds; width and precision are <<>> when absent
FormatString(flags, width, precision, c) ==
    LET kept == SelectSeq(FlagOrder, LAMBDA fl : fl \in flags)
        w == IF width # <<>> THEN <<ToString(width[1])>> ELSE <<>>
        p == IF precision # <<>> THEN <<".", ToString(precision[1])>> ELSE <<>>
    IN  <<"%">> \o kept \o w \o p \o <<c>>

\* Stacktrace.Format: the fmt.Fprintf(f, formatString, text) call it ends with
Format(h, st, flags, width, precision, c) ==
    [format |-> FormatString(flags, width, precision, c), text |-> FormatText(h, st, flags, c)]

\* err.Error(): fmt.Sprint(st) for a node (Format with verb v, no flag), the text of a plain error
Error(h, e) ==
    IF IsStacktrace(h, e) THEN Format(h, e, {}, <<>>, <<>>, "v").text ELSE h[e].text

\* fmt.Errorf(prefix + "%w", e): a plain error that unwraps to e
Errorf(h, prefix, e) == [kind |-> "plain", text |-> prefix \o Error(h, e), unwrap |-> e]

\* -------------------------------------------------------------- inspection
\* RootCause stopping at the innermost node and returning an error of its message
RECURSIVE RootCauseOfMessage(_, _)
RootCauseOfMessage(h, e) ==
    LET st == As(h, e)
    IN  IF st = Nil THEN [h |-> h, ret |-> e]
        ELSE IF As(h, h[st].cause) = Nil THEN Push(h, PlainError(h[st].message))
        ELSE RootCauseOfMessage(h, h[st].cause)

\* RootCause returning a copy of the plain error it reaches instead of the error itself
RECURSIVE RootCauseCopies(_, _)
RootCauseCopies(h, e) ==
    LET st == As(h, e)
    IN  IF st = Nil THEN IF e = Nil THEN [h |-> h, ret |-> e] ELSE Push(h, PlainError(h[e].text))
        ELSE IF h[st].cause = Nil THEN Push(h, PlainError(h[st].message))
        ELSE RootCauseCopies(h, h[st].cause)

RECURSIVE RootCause(_, _)
RootCause(h, e) ==
    LET st == As(h, e)
    IN  IF st = Nil THEN [h |-> h, ret |-> e]
        ELSE IF h[st].cause = Nil THEN Push(h, PlainError(h[st].message))
        ELSE RootCause(h, h[st].cause)

Stack(h, e) ==
    LET st == As(h, e)
    IN  IF st = Nil THEN ""
        ELSE h[st].file \o ":" \o ToString(h[st].line) \o " (" \o h[st].function \o ")"

\* ------------------------------------------------------------ construction
NewError(msg, site) ==
    LET e == Push(<<>>, PlainError(msg))
    IN  Push(e.h, create(e.h, e.ret, NoCode, NoStatusCode, <<>>, site))

Wrap(h, cause, site) ==
    IF cause = Nil THEN [h |-> h, ret |-> Nil]
    ELSE Push(h, create(h, cause, NoCode, NoStatusCode, <<>>, site))

\* WrapWithCode handing its code to create as the status code
WrapWithCodeAsStatus(h, code, cause, site) ==
    IF cause = Nil THEN [h |-> h, ret |-> Nil]
    ELSE Push(h, create(h, cause, NoCode, code, <<>>, site))

WrapWithCode(h, code, cause, site) ==
    IF cause = Nil THEN [h |-> h, ret |-> Nil]
    ELSE Push(h, create(h, cause, code, NoStatusCode, <<>>, site))

WrapWithStatusCode(h, code, cause, site) ==
    IF cause = Nil THEN [h |-> h, ret |-> Nil]
    ELSE Push(h, create(h, cause, NoCode, code, <<>>, site))

\* Propagate without the nil check on the cause
PropagateNoNilCheck(h, cause, msg, site) ==
    Push(h, create(h, cause, NoCode, NoStatusCode, msg, site))

Propagate(h, cause, msg, site) ==
    IF cause = Nil THEN [h |-> h, ret |-> Nil]
    ELSE Push(h, create(h, cause, NoCode, NoStatusCode, msg, site))

PropagateWithCode(h, cause, code, msg, site) ==
    IF cause = Nil THEN [h |-> h, ret |-> Nil]
    ELSE Push(h, create(h, cause, code, NoStatusCode, msg, site))

PropagateWithStatusCode(h, cause, code, msg, site) ==
    IF cause = Nil THEN [h |-> h, ret |-> Nil]
    ELSE Push(h, create(h, cause, NoCode, code, msg, site))

NewErrorWithCode(code, msg, site) ==
    LET e == Push(<<>>, PlainError(msg))
    IN  Push(e.h, create(e.h, e.ret, code, NoStatusCode, <<>>, site))

NewErrorWithStatusCode(statusCode, msg, site) ==
    LET e == Push(<<>>, PlainError(msg))
    IN  Push(e.h, create(e.h, e.ret, NoCode, statusCode, <<>>, site))

\* the fields the composite literal leaves out take Go's zero value
NewMessageWithCode(code, msg) ==
    Push(<<>>, [kind |-> "Stacktrace", message |-> msg, cause |-> Nil,
                code |-> code, statusCode |-> 0,
                file |-> "", function |-> "", line |-> 0])

NewMessageWithStatusCode(code, msg) ==
    Push(<<>>, [kind |-> "Stacktrace", message |-> msg, cause |-> Nil,
                code |-> 0, statusCode |-> code,
                file |-> "", function |-> "", line |-> 0])

\* ------------------------------------------------------------------ inputs
\* what runtime.Caller(2) and runtime.FuncForPC report for the caller
SiteMethod ==
    [ok |-> TRUE, file |-> <<GoPathSrc, "app/srv.go">>, line |-> 7, hasFunc |-> TRUE,
     name |-> <<"github.com", "/", "acme", "/", "app", ".", "(", "*", "Server", ")", ".", "Run">>]
SiteNoFunc ==
    [ok |-> TRUE, file |-> <<"main.go">>, line |-> 3, hasFunc |-> FALSE, name |-> <<>>]
SiteFail ==
    [ok |-> FALSE, file |-> <<>>, line |-> 0, hasFunc |-> FALSE, name |-> <<>>]

Sites == {SiteMethod, SiteNoFunc, SiteFail}
Msgs == {<<>>, <<"a">>, <<"b">>, <<"c">>}
Boom == <<"boom">>
Codes == {NoCode, 2}
StatusCodes == {NoStatusCode, 7}
NoStatusCodeValues == {0, 9}
Flags == SUBSET {"+", "#"}
Verbs == {"s", "v", "q"}

\* ------------------------------------------------------------------ state
Init ==
    /\ heap = <<>>
    /\ err = Nil
    /\ DefaultFormat = FFormatFull
    /\ CleanPath = "RemoveGoPath"
    /\ NoStatusCode \in NoStatusCodeValues
    /\ last = [op |-> "init"]
    /\ wraps = 0
    /\ attached = NoneAttached

config == <<DefaultFormat, CleanPath, NoStatusCode>>
value == <<heap, err, wraps, attached>>

\* the caller keeps the result r of a construction call as its error value
Keep(r) == heap' = r.h /\ err' = r.ret

\* an explicit code c replaces the attached one; the unset sentinel attaches nothing
Attach(c, old) == IF c # NoCode THEN <<c>> ELSE old

\* ---------------------------------------------------- process-wide settings
\* etrace.CleanPath = f, at process start
SetCleanPath(f) ==
    /\ heap = <<>>
    /\ CleanPath # f
    /\ CleanPath' = f
    /\ last' = [op |-> "SetCleanPath"]
    /\ UNCHANGED <<value, DefaultFormat, NoStatusCode>>

\* etrace.DefaultFormat = f
SetDefaultFormat(f) ==
    /\ DefaultFormat # f
    /\ DefaultFormat' = f
    /\ last' = [op |-> "SetDefaultFormat"]
    /\ UNCHANGED <<value, CleanPath, NoStatusCode>>

\* ------------------------------------------------------- construction calls
\* a callee returns a plain error, which becomes the caller's error value
ErrorsNewCall(text) ==
    /\ Keep(Push(<<>>, PlainError(text)))
    /\ last' = [op |-> "errors.New", ret |-> 1]
    /\ wraps' = 0
    /\ attached' = NoneAttached
    /\ UNCHANGED config

\* the caller wraps its error value with fmt.Errorf and %w
ErrorfCall(prefix) ==
    /\ err # Nil
    /\ Len(heap) < MaxChain
    /\ Keep(Push(heap, Errorf(heap, prefix, err)))
    /\ last' = [op |-> "fmt.Errorf", cause |-> err, ret |-> Len(heap) + 1]
    /\ wraps' = 0
    /\ UNCHANGED <<attached, config>>

NewErrorCall(msg, site) ==
    /\ Keep(NewError(msg, site))
    /\ last' = [op |-> "NewError", ret |-> NewError(msg, site).ret]
    /\ wraps' = 0
    /\ attached' = NoneAttached
    /\ UNCHANGED config

NewErrorWithCodeCall(code, msg, site) ==
    /\ Keep(NewErrorWithCode(code, msg, site))
    /\ last' = [op |-> "NewErrorWithCode", code |-> code,
                ret |-> NewErrorWithCode(code, msg, site).ret]
    /\ wraps' = 0
    /\ attached' = Attach(code, NoneAttached)
    /\ UNCHANGED config

NewErrorWithStatusCodeCall(statusCode, msg, site) ==
    /\ Keep(NewErrorWithStatusCode(statusCode, msg, site))
    /\ last' = [op |-> "NewErrorWithStatusCode", statusCode |-> statusCode,
                ret |-> NewErrorWithStatusCode(statusCode, msg, site).ret]
    /\ wraps' = 0
    /\ attached' = NoneAttached
    /\ UNCHANGED config

NewMessageWithCodeCall(code, msg) ==
    /\ Keep(NewMessageWithCode(code, msg))
    /\ last' = [op |-> "NewMessageWithCode", code |-> code,
                ret |-> NewMessageWithCode(code, msg).ret]
    /\ wraps' = 0
    /\ attached' = Attach(code, NoneAttached)
    /\ UNCHANGED config

NewMessageWithStatusCodeCall(code, msg) ==
    /\ Keep(NewMessageWithStatusCode(code, msg))
    /\ last' = [op |-> "NewMessageWithStatusCode", statusCode |-> code,
                ret |-> NewMessageWithStatusCode(code, msg).ret]
    /\ wraps' = 0
    /\ attached' = NoneAttached
    /\ UNCHANGED config

WrapCall(site) ==
    /\ Len(heap) < MaxChain
    /\ Keep(Wrap(heap, err, site))
    /\ last' = [op |-> "Wrap", cause |-> err, ret |-> Wrap(heap, err, site).ret]
    /\ wraps' = IF err # Nil THEN wraps + 1 ELSE 0
    /\ UNCHANGED <<attached, config>>

WrapWithCodeCall(code, site) ==
    /\ Len(heap) < MaxChain
    /\ Keep(WrapWithCode(heap, code, err, site))
    /\ last' = [op |-> "WrapWithCode", cause |-> err, code |-> code,
                ret |-> WrapWithCode(heap, code, err, site).ret]
    /\ wraps' = 0
    /\ attached' = IF err # Nil THEN Attach(code, attached) ELSE attached
    /\ UNCHANGED config

WrapWithStatusCodeCall(code, site) ==
    /\ Len(heap) < MaxChain
    /\ Keep(WrapWithStatusCode(heap, code, err, site))
    /\ last' = [op |-> "WrapWithStatusCode", cause |-> err, statusCode |-> code,
                ret |-> WrapWithStatusCode(heap, code, err, site).ret]
    /\ wraps' = 0
    /\ UNCHANGED <<attached, config>>

PropagateCall(msg, site) ==
    /\ Len(heap) < MaxChain
    /\ Keep(Propagate(heap, err, msg, site))
    /\ last' = [op |-> "Propagate", cause |-> err, ret |-> Propagate(heap, err, msg, site).ret]
    /\ wraps' = IF err # Nil THEN wraps + 1 ELSE 0
    /\ UNCHANGED <<attached, config>>

PropagateWithCodeCall(code, msg, site) ==
    /\ Len(heap) < MaxChain
    /\ Keep(PropagateWithCode(heap, err, code, msg, site))
    /\ last' = [op |-> "PropagateWithCode", cause |-> err, code |-> code,
                ret |-> PropagateWithCode(heap, err, code, msg, site).ret]
    /\ wraps' = 0
    /\ attached' = IF err # Nil THEN Attach(code, attached) ELSE attached
    /\ UNCHANGED config

PropagateWithStatusCodeCall(code, msg, site) ==
    /\ Len(heap) < MaxChain
    /\ Keep(PropagateWithStatusCode(heap, err, code, msg, site))
    /\ last' = [op |-> "PropagateWithStatusCode", cause |-> err, statusCode |-> code,
                ret |-> PropagateWithStatusCode(heap, err, code, msg, site).ret]
    /\ wraps' = 0
    /\ UNCHANGED <<attached, config>>

\* --------------------------------------------------------- inspection calls
GetCodeCall ==
    /\ last' = [op |-> "GetCode", ret |-> GetCode(heap, err)]
    /\ UNCHANGED <<value, config>>

GetStatusCodeCall ==
    /\ last' = [op |-> "GetStatusCode", ret |-> GetStatusCode(heap, err)]
    /\ UNCHANGED <<value, config>>

ExitCodeCall ==
    /\ IsStacktrace(heap, err)
    /\ last' = [op |-> "ExitCode", ret |-> ExitCode(heap, err)]
    /\ UNCHANGED <<value, config>>

\* the result: the pointer returned, whether it is a newly allocated error, and its text
RootCauseCall ==
    /\ LET r == RootCause(heap, err)
       IN  last' = [op |-> "RootCause", ret |-> r.ret, fresh |-> r.ret > Len(heap),
                    text |-> IF r.ret = Nil THEN <<>> ELSE Error(r.h, r.ret)]
    /\ UNCHANGED <<value, config>>

StackCall ==
    /\ last' = [op |-> "Stack", ret |-> Stack(heap, err)]
    /\ UNCHANGED <<value, config>>

\* --------------------------------------------------------- formatting calls
FormatFullCall ==
    /\ IsStacktrace(heap, err)
    /\ last' = [op |-> "FormatFull", ret |-> FormatFull(heap, err)]
    /\ UNCHANGED <<value, config>>

FormatBriefCall ==
    /\ IsStacktrace(heap, err)
    /\ last' = [op |-> "FormatBrief", ret |-> FormatBrief(heap, err)]
    /\ UNCHANGED <<value, config>>

ErrorCall ==
    /\ err # Nil
    /\ last' = [op |-> "Error", ret |-> Error(heap, err)]
    /\ UNCHANGED <<value, config>>

\* fmt.Sprintf("%<flags><c>", err) on a node
FormatCall(flags, c) ==
    /\ IsStacktrace(heap, err)
    /\ last' = [op |-> "Format", flags |-> flags, c |-> c,
                ret |-> Format(heap, err, flags, <<>>, <<>>, c)]
    /\ UNCHANGED <<value, config>>

\* ---------------------------------------------------------- specifications
\* A caller that classifies errors with codes and status codes and inspects them.
Next ==
    \/ ErrorsNewCall(Boom)
    \/ \E p \in {<<"w: ">>} : ErrorfCall(p)
    \/ \E m \in {<<"a">>} : NewErrorCall(m, SiteMethod)
    \/ \E c \in Codes, m \in {<<"a">>} : NewErrorWithCodeCall(c, m, SiteMethod)
    \/ \E s \in StatusCodes, m \in {<<"a">>} : NewErrorWithStatusCodeCall(s, m, SiteMethod)
    \/ \E c \in Codes, m \in {<<"a">>} : NewMessageWithCodeCall(c, m)
    \/ \E s \in StatusCodes, m \in {<<"a">>} : NewMessageWithStatusCodeCall(s, m)
    \/ WrapCall(SiteMethod)
    \/ \E c \in Codes : WrapWithCodeCall(c, SiteMethod)
    \/ \E s \in StatusCodes : WrapWithStatusCodeCall(s, SiteMethod)
    \/ \E m \in {<<"b">>} : PropagateCall(m, SiteMethod)
    \/ \E c \in Codes, m \in {<<"b">>} : PropagateWithCodeCall(c, m, SiteMethod)
    \/ \E s \in StatusCodes, m \in {<<"b">>} : PropagateWithStatusCodeCall(s, m, SiteMethod)
    \/ GetCodeCall
    \/ GetStatusCodeCall
    \/ ExitCodeCall
    \/ RootCauseCall
    \/ StackCall

Spec == Init /\ [][Next]_vars

\* A caller that renders chains on one line: every message, one call site.
NextBrief ==
    \/ \E f \in {"RemoveGoPath", "nil"} : SetCleanPath(f)
    \/ \E f \in {FFormatFull, FFormatBrief} : SetDefaultFormat(f)
    \/ ErrorsNewCall(Boom)
    \/ \E m \in Msgs : NewErrorCall(m, SiteNoFunc)
    \/ \E m \in Msgs : NewMessageWithCodeCall(2, m)
    \/ WrapCall(SiteNoFunc)
    \/ \E m \in Msgs : PropagateCall(m, SiteNoFunc)
    \/ FormatBriefCall
    \/ ErrorCall
    \/ \E fl \in Flags, c \in Verbs : FormatCall(fl, c)

\* the renderings read no status code: one value of the sentinel is enough
InitRender == Init /\ NoStatusCode = 0

SpecBrief == InitRender /\ [][NextBrief]_vars

\* A caller that renders full traces: every call-site outcome, two messages.
NextFull ==
    \/ ErrorsNewCall(Boom)
    \/ \E site \in Sites : NewErrorCall(<<"a">>, site)
    \/ \E m \in {<<>>, <<"a">>} : NewMessageWithCodeCall(2, m)
    \/ \E m \in {<<>>, <<"a">>} : NewMessageWithStatusCodeCall(7, m)
    \/ \E site \in Sites : WrapCall(site)
    \/ \E m \in {<<"a">>, <<"n", "\n">>}, site \in Sites : PropagateCall(m, site)
    \/ FormatFullCall
    \/ ErrorCall

SpecFull == InitRender /\ [][NextFull]_vars

\* ------------------------------------------------------------------ claims
WrapOps == {"Wrap", "WrapWithCode", "WrapWithStatusCode",
            "Propagate", "PropagateWithCode", "PropagateWithStatusCode"}

\* C1: after N >= 1 wraps without an explicit code or status code (Wrap, Propagate)
\* around a non-nil error e, the outermost node reports the code and the status
\* code of e.  e is the value held N wraps ago: err - wraps.
C1_WrapsInheritCodes ==
    wraps >= 1 =>
        /\ IsStacktrace(heap, err)
        /\ GetCode(heap, err) = GetCode(heap, err - wraps)
        /\ GetStatusCode(heap, err) = GetStatusCode(heap, err - wraps)

\* C1 witness: two code-less wraps around an error that carries code 2 and status code 7
C1_Witness ==
    /\ wraps = 2
    /\ GetCode(heap, err - wraps) = 2
    /\ GetStatusCode(heap, err - wraps) = 7
    /\ GetCode(heap, err) = 2

\* C2: every construction function that takes a cause returns nil for a nil cause,
\* whatever the message, code and status code, and creates no node.
C2_NilCauseYieldsNil ==
    (last.op \in WrapOps /\ last.cause = Nil) =>
        /\ last.ret = Nil
        /\ err = Nil
        /\ heap = <<>>

\* C2 witness: PropagateWithCode was called with a nil cause and an explicit code
C2_Witness ==
    /\ last.op = "PropagateWithCode"
    /\ last.cause = Nil
    /\ last.code = 2
    /\ last.ret = Nil

\* C3: ExitCode returns 1 when no code was ever attached anywhere in the chain,
\* and the attached code otherwise.
C3_ExitCodeOfAttachedCode ==
    last.op = "ExitCode" =>
        last.ret = IF attached = NoneAttached THEN 1 ELSE attached[1]

\* C8: an explicit code is the code reported and leaves the status code inherited;
\* an explicit status code is the status code reported and leaves the code inherited.
C8_ExplicitCodeWins ==
    /\ last.op = "NewErrorWithCode" => GetCode(heap, last.ret) = last.code
    /\ (last.op \in {"WrapWithCode", "PropagateWithCode"}
            /\ last.cause # Nil /\ last.code # NoCode) =>
        /\ GetCode(heap, last.ret) = last.code
        /\ GetStatusCode(heap, last.ret) = GetStatusCode(heap, last.cause)
    /\ (last.op \in {"WrapWithStatusCode", "PropagateWithStatusCode"}
            /\ last.cause # Nil /\ last.statusCode # NoStatusCode) =>
        /\ GetStatusCode(heap, last.ret) = last.statusCode
        /\ GetCode(heap, last.ret) = GetCode(heap, last.cause)

\* C8 witness: WrapWithCode(2, e) around an error e whose code is not 2 and whose
\* status code is 7
C8_Witness ==
    /\ last.op = "WrapWithCode"
    /\ last.cause # Nil
    /\ last.code = 2
    /\ GetCode(heap, last.cause) # 2
    /\ GetStatusCode(heap, last.cause) = 7
    /\ NoStatusCode # 7

\* the innermost node of a chain of nodes: follow cause while it is a node
RECURSIVE Innermost(_, _)
Innermost(h, st) == IF IsStacktrace(h, h[st].cause) THEN Innermost(h, h[st].cause) ELSE st

\* the cause of the innermost node: a plain error, or Nil
Terminal(h, st) == h[Innermost(h, st)].cause

\* the link of a cell: the cause of a node, the wrapped error of a plain error
Link(h, e) == IF h[e].kind = "Stacktrace" THEN h[e].cause ELSE h[e].unwrap

\* the cells on the way down from e
RECURSIVE Chain(_, _)
Chain(h, e) == IF e = Nil THEN {} ELSE {e} \cup Chain(h, Link(h, e))

\* C4 as stated: RootCause of N >= 1 wraps around a plain terminal error t returns
\* an error whose text is the text of t.
C4_RootCauseTextOfTerminal ==
    (last.op = "RootCause" /\ IsStacktrace(heap, err) /\ Terminal(heap, err) # Nil) =>
        last.text = heap[Terminal(heap, err)].text

\* C4 amended: the same, for a terminal error t that wraps no node (no *Stacktrace
\* on its Unwrap chain).
C4_RootCauseTextOfPlainTerminal ==
    (last.op = "RootCause" /\ IsStacktrace(heap, err) /\ Terminal(heap, err) # Nil
        /\ As(heap, Terminal(heap, err)) = Nil) =>
        last.text = heap[Terminal(heap, err)].text

\* C4 witness: RootCause was applied to three wraps around the plain error "boom"
C4_Witness ==
    /\ last.op = "RootCause"
    /\ Len(heap) = 4
    /\ err = 4
    /\ \A k \in 2..4 : IsStacktrace(heap, k)
    /\ Terminal(heap, err) = 1
    /\ heap[1].text = Boom
    /\ last.text = Boom

\* C9 as stated: RootCause returns a new error made from the text of the innermost
\* node's cause (not the cause itself), a new error of the innermost node's message
\* when it has no cause, and its argument unchanged when that is no node.
C9_RootCauseFreshFromCause ==
    last.op = "RootCause" =>
        IF ~IsStacktrace(heap, err) THEN last.ret = err /\ ~last.fresh
        ELSE IF Terminal(heap, err) = Nil
             THEN last.fresh /\ last.text = heap[Innermost(heap, err)].message
             ELSE last.fresh /\ last.text = heap[Terminal(heap, err)].text

\* C9 amended: RootCause walks down the chain, looking through plain errors that
\* wrap a node.  It returns, as the same object, the first error on the way that
\* neither is nor wraps a node (nil for a nil argument); when there is none, the
\* walk ends at a node without a cause and the result is a new error of that
\* node's message.
C9_RootCauseReturnsCauseItself ==
    last.op = "RootCause" =>
        IF last.fresh
        THEN /\ \A k \in Chain(heap, err) : As(heap, k) # Nil
             /\ \E n \in Chain(heap, err) :
                    /\ IsStacktrace(heap, n)
                    /\ heap[n].cause = Nil
                    /\ last.text = heap[n].message
        ELSE /\ last.ret \in Chain(heap, err) \cup {Nil}
             /\ As(heap, last.ret) = Nil
             /\ \A k \in Chain(heap, err) \ Chain(heap, last.ret) : As(heap, k) # Nil
             /\ last.ret = Nil => err = Nil
             /\ last.ret # Nil => last.text = heap[last.ret].text

\* C9 witness: RootCause of a node chain around a plain error returned that very error
C9_Witness ==
    /\ last.op = "RootCause"
    /\ IsStacktrace(heap, err)
    /\ Terminal(heap, err) # Nil
    /\ last.ret = Terminal(heap, err)
    /\ ~last.fresh

\* the pieces of a chain: the node messages, outermost first, then the text of the
\* terminal cause when it is a plain error
RECURSIVE Pieces(_, _)
Pieces(h, st) ==
    <<h[st].message>> \o
        (IF IsStacktrace(h, h[st].cause) THEN Pieces(h, h[st].cause)
         ELSE IF h[st].cause # Nil THEN <<h[h[st].cause].text>>
         ELSE <<>>)

NonEmpty(pieces) == SelectSeq(pieces, LAMBDA p : p # <<>>)

RECURSIVE JoinWith(_, _)
JoinWith(pieces, sep) ==
    IF pieces = <<>> THEN <<>>
    ELSE IF Len(pieces) = 1 THEN pieces[1]
    ELSE pieces[1] \o sep \o JoinWith(Tail(pieces), sep)

\* messages "a", "b", "c", innermost to outermost, around the plain error "boom"
IsAbcBoom ==
    /\ Len(heap) = 4
    /\ err = 4
    /\ heap[1].kind = "plain" /\ heap[1].text = Boom
    /\ \A k \in 2..4 : IsStacktrace(heap, k)
    /\ heap[2].message = <<"a">>
    /\ heap[3].message = <<"b">>
    /\ heap[4].message = <<"c">>

\* C5: FormatBrief is the non-empty pieces of the chain joined by ": "; messages
\* "a", "b", "c" around "boom" render as "c: b: a: boom".
C5_BriefJoinsNonEmptyPieces ==
    last.op = "FormatBrief" =>
        /\ last.ret = JoinWith(NonEmpty(Pieces(heap, err)), <<": ">>)
        /\ IsAbcBoom => last.ret = <<"c", ": ", "b", ": ", "a", ": ", "boom">>

\* C5 witness: FormatBrief rendered the chain of "a", "b", "c" around "boom"
C5_Witness ==
    /\ last.op = "FormatBrief"
    /\ IsAbcBoom
    /\ last.ret = <<"c", ": ", "b", ": ", "a", ": ", "boom">>

\* C5 witness of the skipped pieces: a chain with an empty message between two others
C5_WitnessSkip ==
    /\ last.op = "FormatBrief"
    /\ Len(heap) = 4
    /\ Len(NonEmpty(Pieces(heap, err))) = 2
    /\ Len(Pieces(heap, err)) = 4
    /\ heap[3].message = <<>>

\* the rendering the process-wide default selects
ByDefault(h, st) == IF DefaultFormat = FFormatBrief THEN FormatBrief(h, st) ELSE FormatFull(h, st)

\* C6: "%+s" renders the full form and "%#s" the brief form whatever DefaultFormat
\* is; every other directive, and Error(), renders the form DefaultFormat selects.
C6_ForcedFormats ==
    /\ last.op = "Format" =>
        /\ (last.c = "s" /\ last.flags = {"+"}) => last.ret.text = FormatFull(heap, err)
        /\ (last.c = "s" /\ last.flags = {"#"}) => last.ret.text = FormatBrief(heap, err)
        /\ (last.c # "s" \/ last.flags \notin {{"+"}, {"#"}}) =>
                last.ret.text = ByDefault(heap, err)
    /\ (last.op = "Error" /\ IsStacktrace(heap, err)) => last.ret = ByDefault(heap, err)

\* C6 witness: "%#s" on a chain whose two forms differ, while the default is full
C6_Witness ==
    /\ last.op = "Format"
    /\ last.c = "s"
    /\ last.flags = {"#"}
    /\ DefaultFormat = FFormatFull
    /\ FormatFull(heap, err) # FormatBrief(heap, err)
    /\ last.ret.text = FormatBrief(heap, err)

\* C6 witness of the other direction: "%+s" while the default is brief
C6_WitnessFull ==
    /\ last.op = "Format"
    /\ last.c = "s"
    /\ last.flags = {"+"}
    /\ DefaultFormat = FFormatBrief
    /\ FormatFull(heap, err) # FormatBrief(heap, err)
    /\ last.ret.text = FormatFull(heap, err)

\* the nodes of a chain, outermost first
RECURSIVE Nodes(_, _)
Nodes(h, st) ==
    <<st>> \o (IF IsStacktrace(h, h[st].cause) THEN Nodes(h, h[st].cause) ELSE <<>>)

\* every text a call-site segment can take, the one of an empty call site included
AllLocations ==
    UNION {{Location(Join(f), s.line, fn) :
                f \in {s.file, RemoveGoPath(s.file)},
                fn \in {"", Join(ShortFuncName(s.name))}} : s \in Sites}

\* the call-site segments expected of a chain: one per node with a file, in order
Segments(h, st) ==
    LET located == SelectSeq(Nodes(h, st), LAMBDA n : h[n].file # "")
    IN  [i \in 1..Len(located) |->
            Location(h[located[i]].file, h[located[i]].line, h[located[i]].function)]

EndsWith(str, suffix) ==
    /\ Len(suffix) <= Len(str)
    /\ SubSeq(str, Len(str) - Len(suffix) + 1, Len(str)) = suffix

\* C7: FormatFull holds a call-site segment for exactly the nodes with a file, in
\* chain order; a node of NewMessageWithCode / NewMessageWithStatusCode contributes
\* its message and no segment.
C7_SegmentsOfLocatedNodes ==
    last.op = "FormatFull" =>
        /\ SelectSeq(last.ret, LAMBDA tok : tok \in AllLocations) = Segments(heap, err)
        /\ (heap[1].kind = "Stacktrace" /\ heap[1].cause = Nil) =>
                /\ heap[1].file = ""
                /\ EndsWith(last.ret, heap[1].message)
                /\ (heap[1].message # <<>> => last.ret[Len(last.ret)] \notin AllLocations)

\* C7 witness: a node without call site under nodes with file and function, with a
\* file only, and with a failed capture
C7_Witness ==
    /\ last.op = "FormatFull"
    /\ Len(heap) = 4
    /\ heap[1].kind = "Stacktrace" /\ heap[1].cause = Nil /\ heap[1].message # <<>>
    /\ \E i, j, k \in 2..4 :
        /\ heap[i].file # "" /\ heap[i].function # ""
        /\ heap[j].file # "" /\ heap[j].function = ""
        /\ heap[k].file = ""
    /\ Len(Segments(heap, err)) = 2

\* the full rendering put together from its parts, without the tabs: message, call
\* site, separator, then the rest of the chain.  `always` puts ": " before every
\* next node; otherwise only before a next node with a message.
RECURSIVE FullByParts(_, _, _)
FullByParts(h, st, always) ==
    LET own == h[st].message \o
                (IF h[st].file # ""
                 THEN <<Location(h[st].file, h[st].line, h[st].function)>> ELSE <<>>)
        cause == h[st].cause
    IN  IF cause = Nil THEN own
        ELSE IF ~IsStacktrace(h, cause) THEN own \o <<":">> \o h[cause].text
        ELSE own \o (IF always \/ h[cause].message # <<>> THEN <<": ">> ELSE <<>>)
                 \o FullByParts(h, cause, always)

WithoutTabs(str) == SelectSeq(str, LAMBDA tok : tok # "\t")

\* C10 as stated: in FormatFull every node with a cause is followed by ": " and the
\* next node's output when the cause is a node, whatever its message, or by ":" and
\* the text of a plain cause; a node without a cause is followed by nothing.
C10_FullSeparatorBeforeEveryNode ==
    last.op = "FormatFull" => WithoutTabs(last.ret) = FullByParts(heap, err, TRUE)

\* C10 amended: the ": " before the next node's output is there only when that next
\* node's message is not empty; before a node with an empty message (as produced by
\* Wrap) nothing is put.  The rest is as stated.
C10_FullSeparatorBeforeMessage ==
    last.op = "FormatFull" => WithoutTabs(last.ret) = FullByParts(heap, err, FALSE)

\* C10 witness: a plain error under a node with a message under two nodes without
C10_Witness ==
    /\ last.op = "FormatFull"
    /\ Len(heap) = 4
    /\ heap[1].kind = "plain"
    /\ \A k \in 2..4 : IsStacktrace(heap, k)
    /\ heap[2].message # <<>>
    /\ heap[3].message = <<>>
    /\ heap[4].message = <<>>
    /\ heap[4].file # ""

====
